---------------------------- MODULE Spec2Model ----------------------------
(***************************************************************************)
(* A model of the go-shadow request router (src/router.go).                *)
(*                                                                         *)
(* Representation.  A Go string is a sequence of one-character strings     *)
(* (<<"/", "x">> is "/x").  A route pattern as handed to Get/Post/... is   *)
(* kept in lexed form: a sequence of tokens, each a literal character or a *)
(* placeholder ":name" / ":name(constraint)".  A regular expression text   *)
(* is kept as the list of its top-level alternatives (the pieces between   *)
(* the "|" characters), each a sequence of items; the string "A|" is       *)
(* therefore <<A, <<>>>> and the empty string is << <<>> >>.               *)
(***************************************************************************)
EXTENDS Integers, Sequences, FiniteSets, TLC

(***************************************************************************)
(* Bounds of the model.                                                    *)
(***************************************************************************)
MaxRoutes == 2
MaxCompiles == 2
MaxDepth == 2
MaxChunkRoutes == 18
MaxChunkCompiles == 2

(***************************************************************************)
(* Strings.                                                                *)
(***************************************************************************)
Methods == {"GET", "POST", "PUT", "DELETE"}

Digits == {"0", "1", "2", "3", "4", "5", "6", "7", "8", "9"}

Lower == {"a", "b", "c", "d", "e", "f", "g", "h", "i", "j", "k", "l", "m",
          "n", "o", "p", "q", "r", "s", "t", "u", "v", "w", "x", "y", "z"}

RECURSIVE TrimRight(_, _)
TrimRight(s, c) ==
    IF s # <<>> /\ s[Len(s)] = c THEN TrimRight(SubSeq(s, 1, Len(s) - 1), c)
    ELSE s

RECURSIVE TrimLeftItems(_)
TrimLeftItems(items) ==
    IF items # <<>> /\ items[1].k = "lit" /\ items[1].c = "/"
    THEN TrimLeftItems(Tail(items))
    ELSE items

(***************************************************************************)
(* Pattern tokens and regular-expression items.                            *)
(*   lit  : one literal character                                          *)
(*   ph   : a placeholder token :name(con); con = "" when unconstrained    *)
(*   grp  : a named capture group (?P<name>cls), cls a "[...]+" class      *)
(*   sent : the sentinel group (?P<name>/) that Compile puts before a      *)
(*          route's fragment                                               *)
(*   anch : the text ^(?: alts )$                                          *)
(***************************************************************************)
Lit(ch) == [k |-> "lit", c |-> ch, name |-> <<>>, cls |-> "", alts |-> <<>>]

Ph(nm, con) == [k |-> "ph", c |-> "", name |-> nm, cls |-> con, alts |-> <<>>]

Grp(nm, cl) == [k |-> "grp", c |-> "", name |-> nm, cls |-> cl, alts |-> <<>>]

Sent(nm) == [k |-> "sent", c |-> "", name |-> nm, cls |-> "", alts |-> <<>>]

Anch(as) == [k |-> "anch", c |-> "", name |-> <<>>, cls |-> "", alts |-> as]

Lits(s) == [i \in 1..Len(s) |-> Lit(s[i])]

\* The characters a class "[...]+" admits.
ClassChars(cls) ==
    CASE cls = "[0-9]+" -> Digits
      [] cls = "[a-z]+" -> Lower
      [] cls = "[a-z0-9]+" -> Lower \cup Digits
      [] cls = "[a-z0-9-]+" -> Lower \cup Digits \cup {"-"}
      [] cls = "[^/]+" -> (Lower \cup Digits \cup {"-", ".", "_", ":"})
      [] OTHER -> {}

\* The convenience aliases of newRoute (lines 55-58); any other constraint
\* text is a regular expression already.
ExpandAlias(con) ==
    CASE con = "int" -> "[0-9]+"
      [] con = "alpha" -> "[a-z]+"
      [] con = "alphanumeric" -> "[a-z0-9]+"
      [] con = "slug" -> "[a-z0-9-]+"
      [] OTHER -> con

(***************************************************************************)
(* newRoute.                                                               *)
(***************************************************************************)
NoRoute == [id |-> 0, method |-> "", name |-> <<>>, pattern |-> <<>>,
            basePattern |-> <<>>]

RECURSIVE Flatten(_)
\* The text of a token sequence with every :name(con) cut to :name
\* (namedRegex.ReplaceAllString(pattern, ":$1"), line 66).
Flatten(toks) ==
    IF toks = <<>> THEN <<>>
    ELSE (IF toks[1].k = "ph" THEN <<":">> \o toks[1].name ELSE <<toks[1].c>>)
         \o Flatten(Tail(toks))

HasConstraint(toks) == \E i \in 1..Len(toks) : toks[i].k = "ph" /\ toks[i].cls # ""

RECURSIVE Fragment(_, _)
\* Lines 68-72: with a constrained placeholder anywhere, only the constrained
\* ones become groups and a bare :name stays literal text; otherwise every
\* :name becomes (?P<name>[^/]+).
Fragment(toks, constrained) ==
    IF toks = <<>> THEN <<>>
    ELSE LET t == toks[1]
             head == IF t.k # "ph" THEN <<t>>
                     ELSE IF constrained
                          THEN (IF t.cls # "" THEN <<Grp(t.name, ExpandAlias(t.cls))>>
                                ELSE Lits(<<":">> \o t.name))
                          ELSE <<Grp(t.name, "[^/]+")>>
         IN head \o Fragment(Tail(toks), constrained)

newRoute(id, method, name, toks) ==
    [id |-> id, method |-> method, name |-> name,
     pattern |-> Fragment(toks, HasConstraint(toks)),
     basePattern |-> Flatten(toks)]


(***************************************************************************)
(* Regular expressions: the texts Compile builds and how Go's regexp       *)
(* matches them (leftmost-first: alternatives in order, a "+" greedy).     *)
(***************************************************************************)
chunkSize == 15

EmptyText == << <<>> >>

\* text + alt + "|"  (line 186)
AppendAlt(text, alt) ==
    [text EXCEPT ![Len(text)] = @ \o alt] \o << <<>> >>

RECURSIVE TrimRightBar(_)
\* strings.TrimRight(text, "|")
TrimRightBar(text) ==
    IF Len(text) > 1 /\ text[Len(text)] = <<>>
    THEN TrimRightBar(SubSeq(text, 1, Len(text) - 1))
    ELSE text

\* "^(?:" + strings.TrimRight(text, "|") + ")$"  (lines 189, 196)
Wrap(text) == << <<Anch(TrimRightBar(text))>> >>

RECURSIVE NamesOfItems(_), NamesOfAlts(_)
\* Regexp.SubexpNames without its entry 0: the group names, left to right.
NamesOfItems(items) ==
    IF items = <<>> THEN <<>>
    ELSE LET t == items[1]
             head == CASE t.k = "grp" -> <<t.name>>
                       [] t.k = "sent" -> <<t.name>>
                       [] t.k = "anch" -> NamesOfAlts(t.alts)
                       [] OTHER -> <<>>
         IN head \o NamesOfItems(Tail(items))

NamesOfAlts(alts) ==
    IF alts = <<>> THEN <<>>
    ELSE NamesOfItems(alts[1]) \o NamesOfAlts(Tail(alts))

SubexpNames(text) == NamesOfAlts(text)

Blank(n) == [i \in 1..n |-> <<>>]

\* The value of F at v, with v computed once.
With(v, F(_)) == CHOOSE r \in {F(x) : x \in {v}} : TRUE

RECURSIVE ClassRun(_, _, _)
\* How many characters of s from pos on lie in the class.
ClassRun(cls, s, pos) ==
    IF pos <= Len(s) /\ s[pos] \in ClassChars(cls)
    THEN 1 + ClassRun(cls, s, pos + 1)
    ELSE 0

RECURSIVE Matches(_, _, _, _), MatchesAlts(_, _, _)
\* Whether items k, k+1, ... match s from pos to its end.  Every text Compile
\* builds is ^(?:...)$, so whatever matches inside it ends where s ends.
Matches(items, k, s, pos) ==
    IF k > Len(items) THEN pos = Len(s) + 1
    ELSE CASE items[k].k = "lit" ->
                /\ pos <= Len(s)
                /\ s[pos] = items[k].c
                /\ Matches(items, k + 1, s, pos + 1)
           [] items[k].k = "sent" ->
                /\ pos <= Len(s)
                /\ s[pos] = "/"
                /\ Matches(items, k + 1, s, pos + 1)
           [] items[k].k = "grp" ->
                \E n \in 1..ClassRun(items[k].cls, s, pos) :
                    Matches(items, k + 1, s, pos + n)
           [] items[k].k = "anch" ->
                \* ^ holds at the start of s only, $ at its end only
                /\ pos = 1
                /\ MatchesAlts(items[k].alts, 1, s)
                /\ Matches(items, k + 1, s, Len(s) + 1)
           [] OTHER -> FALSE

\* Whether one of the alternatives j, j+1, ... matches the whole of s.
MatchesAlts(alts, j, s) ==
    /\ j <= Len(alts)
    /\ (Matches(alts[j], 1, s, 1) \/ MatchesAlts(alts, j + 1, s))

RECURSIVE FirstAlt(_, _, _)
\* The first alternative from j on that matches the whole of s.
FirstAlt(alts, j, s) ==
    IF Matches(alts[j], 1, s, 1) THEN j ELSE FirstAlt(alts, j + 1, s)

\* A greedy "+" takes the most characters that let the rest match.
GroupLen(items, k, s, pos) ==
    CHOOSE n \in 1..ClassRun(items[k].cls, s, pos) :
        /\ Matches(items, k + 1, s, pos + n)
        /\ \A n2 \in (n + 1)..ClassRun(items[k].cls, s, pos) :
               ~Matches(items, k + 1, s, pos + n2)

RECURSIVE Caps(_, _, _, _), CapsAlts(_, _)
\* What the groups of items k, k+1, ... capture when they match s from pos
\* to its end (<<>> for a group of an alternative not taken).
Caps(items, k, s, pos) ==
    IF k > Len(items) THEN <<>>
    ELSE CASE items[k].k = "lit" -> Caps(items, k + 1, s, pos + 1)
           [] items[k].k = "sent" -> << <<"/">> >> \o Caps(items, k + 1, s, pos + 1)
           [] items[k].k = "grp" ->
                With(GroupLen(items, k, s, pos),
                     LAMBDA n : <<SubSeq(s, pos, pos + n - 1)>>
                                \o Caps(items, k + 1, s, pos + n))
           [] items[k].k = "anch" ->
                CapsAlts(items[k].alts, s) \o Caps(items, k + 1, s, Len(s) + 1)
           [] OTHER -> <<>>

CapsAlts(alts, s) ==
    With(FirstAlt(alts, 1, s),
         LAMBDA j : Blank(Len(NamesOfAlts(SubSeq(alts, 1, j - 1))))
                    \o Caps(alts[j], 1, s, 1)
                    \o Blank(Len(NamesOfAlts(SubSeq(alts, j + 1, Len(alts))))))

\* Regexp.FindStringSubmatch without its entry 0; ok is FALSE for nil.
FindStringSubmatch(text, s) ==
    IF MatchesAlts(text, 1, s) THEN [ok |-> TRUE, caps |-> CapsAlts(text, s)]
    ELSE [ok |-> FALSE, caps |-> <<>>]

\* Whether the route's own pattern, anchored, matches the whole path.
RouteMatches(route, s) ==
    MatchesAlts(Wrap(AppendAlt(EmptyText, route.pattern)), 1, s)

(***************************************************************************)
(* Compile, for one method (lines 184-197).                                *)
(***************************************************************************)
Alternative(route) == <<Sent(route.name)>> \o TrimLeftItems(route.pattern)

RECURSIVE CompileLoop(_, _, _, _)
\* i is the loop index of line 185, counted from 0.
CompileLoop(rs, i, pattern, regs) ==
    IF i >= Len(rs) THEN Append(regs, Wrap(pattern))
    ELSE LET p == AppendAlt(pattern, Alternative(rs[i + 1]))
         IN IF i > 0 /\ i % chunkSize = 0
            THEN CompileLoop(rs, i + 1, Wrap(p), Append(regs, Wrap(p)))
            ELSE CompileLoop(rs, i + 1, p, regs)

CompileMethod(rs, regs) == CompileLoop(rs, 0, EmptyText, regs)

(***************************************************************************)
(* The router's state.                                                     *)
(*   validExtensions, routes, routesByMethod, regexesByMethod, matched and *)
(*   group are the fields of Router.  frames is the stack of running Group *)
(*   calls (their arguments, and the group context each found on entry).   *)
(*   calls holds the Dispatch calls in flight on other goroutines.  phase  *)
(*   and last record the history the properties speak of: whether Compile  *)
(*   ran after the latest registration, and the latest call with what it   *)
(*   returned (for a Dispatch also raw, the text match[i] behind every     *)
(*   parameter).                                                           *)
(***************************************************************************)
VARIABLES validExtensions, routes, routesByMethod, regexesByMethod, matched,
          group, frames, calls, phase, last

vars == <<validExtensions, routes, routesByMethod, regexesByMethod, matched,
          group, frames, calls, phase, last>>

Callers == {1, 2}

NoGroup == [prefix |-> <<>>, name |-> <<>>]

NoParams == <<>>

Obs(op) == [op |-> op, method |-> "", name |-> <<>>, toks |-> <<>>,
            path |-> <<>>, route |-> NoRoute, params |-> NoParams,
            raw |-> NoParams, nilParams |-> TRUE, saved |-> NoGroup,
            pairs |-> <<>>, url |-> <<>>]

IdleCall == [pc |-> "idle", method |-> "", path |-> <<>>, own |-> NoRoute,
             wrote |-> FALSE, route |-> NoRoute]

\* New()
Init ==
    /\ validExtensions = << <<>> >>
    /\ routes = <<>>
    /\ routesByMethod = [m \in Methods |-> <<>>]
    /\ regexesByMethod = [m \in Methods |-> <<>>]
    /\ matched = NoRoute
    /\ group = NoGroup
    /\ frames = <<>>
    /\ calls = [c \in Callers |-> IdleCall]
    /\ phase = "registering"
    /\ last = Obs("new")

RECURSIVE SumLen(_, _)
SumLen(f, S) ==
    IF S = {} THEN 0
    ELSE LET m == CHOOSE x \in S : TRUE IN Len(f[m]) + SumLen(f, S \ {m})

\* The routes created so far; a new route is the next object.
NumRoutes == SumLen(routesByMethod, Methods)

\* The Router fields that Dispatch reads, as its receiver r.
Router == [validExtensions |-> validExtensions, routes |-> routes,
           regexesByMethod |-> regexesByMethod, matched |-> matched]

FindRoute(r, name) == IF name \in DOMAIN r.routes THEN r.routes[name] ELSE NoRoute

(***************************************************************************)
(* Registration.                                                           *)
(***************************************************************************)
addRoute(method, name, toks) ==
    LET fullName == IF group.name # <<>> THEN group.name \o <<"_">> \o name
                    ELSE name
        fullToks == IF group.prefix # <<>> THEN Lits(group.prefix) \o toks
                    ELSE toks
        route == newRoute(NumRoutes + 1, method, fullName, fullToks)
    IN /\ routes' = (fullName :> route) @@ routes
       /\ routesByMethod' = [routesByMethod EXCEPT ![method] = Append(@, route)]
       /\ phase' = "registering"
       /\ last' = [Obs("add") EXCEPT !.method = method, !.name = name,
                                     !.toks = toks, !.route = route,
                                     !.saved = group]
       /\ UNCHANGED <<validExtensions, regexesByMethod, matched, group, frames,
                      calls>>

Get(name, toks) == addRoute("GET", name, toks)

Post(name, toks) == addRoute("POST", name, toks)

Put(name, toks) == addRoute("PUT", name, toks)

Delete(name, toks) == addRoute("DELETE", name, toks)

ValidExtensions(exts) ==
    /\ validExtensions' = exts
    /\ last' = Obs("ext")
    /\ UNCHANGED <<routes, routesByMethod, regexesByMethod, matched, group,
                   frames, calls, phase>>

\* Group up to the call of fn (lines 296-299).
GroupEnter(prefix, name) ==
    /\ group' = [prefix |-> TrimRight(prefix, "/"), name |-> TrimRight(name, "_")]
    /\ frames' = Append(frames, [prefix |-> prefix, name |-> name, saved |-> group])
    /\ last' = Obs("group")
    /\ UNCHANGED <<validExtensions, routes, routesByMethod, regexesByMethod,
                   matched, calls, phase>>

\* Group after fn returned (lines 301-302).
GroupExit ==
    /\ frames # <<>>
    /\ group' = NoGroup
    /\ frames' = SubSeq(frames, 1, Len(frames) - 1)
    /\ last' = [Obs("groupExit") EXCEPT !.saved = frames[Len(frames)].saved]
    /\ UNCHANGED <<validExtensions, routes, routesByMethod, regexesByMethod,
                   matched, calls, phase>>

(***************************************************************************)
(* Compile.                                                                *)
(***************************************************************************)
Compile ==
    /\ regexesByMethod' =
         [m \in Methods |-> CompileMethod(routesByMethod[m], regexesByMethod[m])]
    /\ phase' = "compiled"
    /\ last' = Obs("compile")
    /\ UNCHANGED <<validExtensions, routes, routesByMethod, matched, group,
                   frames, calls>>

(***************************************************************************)
(* Dispatch.                                                               *)
(***************************************************************************)
ExtKey == <<"e", "x", "t">>

IntVal(n) == [t |-> "int", i |-> n, s |-> <<>>]

StrVal(str) == [t |-> "str", i |-> 0, s |-> str]

DigitVal(ch) == CHOOSE d \in 0..9 : <<"0", "1", "2", "3", "4", "5", "6", "7", "8", "9">>[d + 1] = ch

Unsigned(s) == IF s # <<>> /\ s[1] \in {"+", "-"} THEN Tail(s) ELSE s

\* Whether strconv.Atoi accepts s (the lengths here never overflow an int).
IsInt(s) ==
    /\ Unsigned(s) # <<>>
    /\ \A i \in 1..Len(Unsigned(s)) : Unsigned(s)[i] \in Digits

RECURSIVE DigitsVal(_, _)
DigitsVal(s, acc) ==
    IF s = <<>> THEN acc ELSE DigitsVal(Tail(s), 10 * acc + DigitVal(s[1]))

Atoi(s) == IF s[1] = "-" THEN 0 - DigitsVal(Unsigned(s), 0) ELSE DigitsVal(Unsigned(s), 0)

\* Lines 255-261 without the conversion: the text as it was captured.
Coerce_Raw(s) == StrVal(s)

\* Lines 255-261.
Coerce(s) == IF IsInt(s) THEN IntVal(Atoi(s)) ELSE StrVal(s)

\* Lines 216-224: regexp \.([^\.]+)$ finds the last "." of the path when
\* something follows it; the extension is what follows, the path what precedes.
SplitExt(path) ==
    LET dots == {i \in 1..Len(path) : path[i] = "."}
        d == CHOOSE i \in dots : \A j \in dots : j <= i
    IN IF dots = {} \/ path[Len(path)] = "."
       THEN [ext |-> <<>>, path |-> path]
       ELSE [ext |-> SubSeq(path, d + 1, Len(path)), path |-> SubSeq(path, 1, d - 1)]

\* Dispatch without the test of lines 226-228.
extensionIsValid_Any(r, ext) == TRUE

extensionIsValid(r, ext) ==
    \E i \in 1..Len(r.validExtensions) : r.validExtensions[i] = ext

RECURSIVE FirstMatch(_, _, _)
\* Lines 230-233: the first chunk that matches, or 0.
FirstMatch(chunks, i, s) ==
    IF i > Len(chunks) THEN 0
    ELSE IF MatchesAlts(chunks[i], 1, s) THEN i
    ELSE FirstMatch(chunks, i + 1, s)

RECURSIVE ScanGroups(_, _, _, _, _, _)
\* Lines 235-262, from index 1 (index 0, the whole match, is skipped while
\* params is empty).  acc.wrote says whether line 248 assigned r.matched,
\* acc.own is what it assigned and acc.raw holds match[i] for every parameter.
ScanGroups(r, names, match, i, ext, acc) ==
    IF i > Len(names) THEN acc
    ELSE IF match[i] = <<>>
         THEN (IF DOMAIN acc.params = {}
               THEN ScanGroups(r, names, match, i + 1, ext, acc)
               ELSE acc)
         ELSE IF DOMAIN acc.params = {}
              THEN ScanGroups(r, names, match, i + 1, ext,
                       [wrote |-> TRUE, own |-> FindRoute(r, names[i]),
                        params |-> (ExtKey :> StrVal(ext)), raw |-> NoParams])
              ELSE ScanGroups(r, names, match, i + 1, ext,
                       [acc EXCEPT !.params = (names[i] :> Coerce(match[i])) @@ @,
                                   !.raw = (names[i] :> match[i]) @@ @])

\* Lines 216-262 of one call: whether a chunk matched (hit), whether and with
\* what r.matched was assigned, and the parameters collected.
ScanChunk(r, chunk, e) ==
    With(<<SubexpNames(chunk), FindStringSubmatch(chunk, e.path).caps>>,
         LAMBDA nm : ScanGroups(r, nm[1], nm[2], 1, e.ext,
                         [wrote |-> FALSE, own |-> NoRoute, params |-> NoParams,
                          raw |-> NoParams]))

Scan(r, method, path) ==
    With(SplitExt(path), LAMBDA e :
      With(IF extensionIsValid(r, e.ext)
           THEN FirstMatch(r.regexesByMethod[method], 1, e.path) ELSE 0,
           LAMBDA idx :
             IF idx = 0
             THEN [hit |-> FALSE, wrote |-> FALSE, own |-> NoRoute,
                   params |-> NoParams, raw |-> NoParams]
             ELSE With(ScanChunk(r, r.regexesByMethod[method][idx], e),
                       LAMBDA acc : [hit |-> TRUE, wrote |-> acc.wrote,
                                     own |-> acc.own, params |-> acc.params,
                                     raw |-> acc.raw])))

\* What r.Dispatch(method, path) returns when it runs alone, and the r.matched
\* it leaves.
DispatchResult(r, method, path) ==
    With(Scan(r, method, path), LAMBDA sc :
      [route |-> IF sc.hit THEN (IF sc.wrote THEN sc.own ELSE r.matched)
                 ELSE NoRoute,
       params |-> sc.params,
       raw |-> sc.raw,
       nilParams |-> ~sc.hit,
       matched |-> IF sc.wrote THEN sc.own ELSE r.matched])

Dispatch(method, path) ==
    /\ \E res \in {DispatchResult(Router, method, path)} :
          /\ matched' = res.matched
          /\ last' = [Obs("dispatch") EXCEPT !.method = method, !.path = path,
                                             !.route = res.route,
                                             !.params = res.params,
                                             !.raw = res.raw,
                                             !.nilParams = res.nilParams]
    /\ UNCHANGED <<validExtensions, routes, routesByMethod, regexesByMethod,
                      group, frames, calls, phase>>

\* Dispatch on a goroutine of its own, up to the assignment of line 248.
DispatchScan(c, method, path) ==
    /\ calls[c].pc # "scanned"
    /\ \E sc \in {Scan(Router, method, path)} :
          /\ matched' = IF sc.wrote THEN sc.own ELSE matched
          /\ calls' = [calls EXCEPT ![c] =
                         [pc |-> IF sc.hit THEN "scanned" ELSE "done",
                          method |-> method, path |-> path, own |-> sc.own,
                          wrote |-> sc.wrote, route |-> NoRoute]]
    /\ UNCHANGED <<validExtensions, routes, routesByMethod, regexesByMethod,
                      group, frames, phase, last>>

\* The return of line 264, which reads r.matched.
DispatchReturn(c) ==
    /\ calls[c].pc = "scanned"
    /\ calls' = [calls EXCEPT ![c].pc = "done", ![c].route = matched]
    /\ UNCHANGED <<validExtensions, routes, routesByMethod, regexesByMethod,
                   matched, group, frames, phase, last>>

(***************************************************************************)
(* URL generation.                                                         *)
(***************************************************************************)
RECURSIVE ItoaDigits(_)
ItoaDigits(n) ==
    (IF n >= 10 THEN ItoaDigits(n \div 10) ELSE <<>>)
    \o <<(<<"0", "1", "2", "3", "4", "5", "6", "7", "8", "9">>)[(n % 10) + 1]>>

\* strconv.Itoa
Itoa(n) == IF n < 0 THEN <<"-">> \o ItoaDigits(0 - n) ELSE ItoaDigits(n)

HasPrefixAt(s, pos, old) ==
    /\ pos + Len(old) - 1 <= Len(s)
    /\ SubSeq(s, pos, pos + Len(old) - 1) = old

RECURSIVE Replace(_, _, _, _)
\* strings.Replace(s, old, new, -1) for a non-empty old, from pos on: the
\* occurrences of old, left to right and not overlapping, become new.
Replace(s, pos, old, new) ==
    IF pos > Len(s) THEN <<>>
    ELSE IF HasPrefixAt(s, pos, old)
         THEN new \o Replace(s, pos + Len(old), old, new)
         ELSE <<s[pos]>> \o Replace(s, pos + 1, old, new)

RECURSIVE URLLoop(_, _)
\* Lines 111-124, over the name/value pairs in the order given.
URLLoop(url, pairs) ==
    IF pairs = <<>> THEN url
    ELSE URLLoop(Replace(url, 1, <<":">> \o pairs[1].name,
                         IF pairs[1].value.t = "int" THEN Itoa(pairs[1].value.i)
                         ELSE pairs[1].value.s),
                 Tail(pairs))

\* Route.URL
RouteURL(route, pairs) == URLLoop(route.basePattern, pairs)

\* Router.URL
RouterURL(r, name, pairs) ==
    IF name \in DOMAIN r.routes THEN RouteURL(r.routes[name], pairs) ELSE <<>>

URL(name, pairs) ==
    /\ last' = [Obs("url") EXCEPT !.name = name, !.pairs = pairs,
                                  !.url = RouterURL(Router, name, pairs)]
    /\ UNCHANGED <<validExtensions, routes, routesByMethod, regexesByMethod,
                   matched, group, frames, calls, phase>>

(***************************************************************************)
(* Inputs.                                                                 *)
(***************************************************************************)
Names == {<<"a">>, <<"b">>}

PatX == Lits(<<"/", "x">>)

PatAny == <<Lit("/"), Ph(<<"i", "d">>, "")>>

Patterns == {PatX, PatAny}

Paths == {<<>>, <<"/", "x">>, <<"/", "5">>, <<".", "j">>}

ExtLists == {<< <<>>, <<"j">> >>}

CanCompile(max) == \E m \in Methods : Len(regexesByMethod[m]) < max

(***************************************************************************)
(* Spec: the calls of the API one after another.                           *)
(***************************************************************************)
Next ==
    \/ \E n \in Names, p \in Patterns : NumRoutes < MaxRoutes /\ Get(n, p)
    \/ \E n \in Names, p \in Patterns : NumRoutes < MaxRoutes /\ Post(n, p)
    \/ \E e \in ExtLists : ValidExtensions(e)
    \/ CanCompile(MaxCompiles) /\ Compile
    \/ \E m \in {"GET", "POST"}, p \in Paths : Dispatch(m, p)

Spec == Init /\ [][Next]_vars

\* The registered routes of the method that match the path once its
\* extension is cut off, by position in registration order.
Matching(method, path) ==
    {i \in 1..Len(routesByMethod[method]) :
        RouteMatches(routesByMethod[method][i], SplitExt(path).path)}

\* The receiver as the step leaves it.
RouterAfter == [validExtensions |-> validExtensions', routes |-> routes',
                regexesByMethod |-> regexesByMethod', matched |-> matched']

SameResult(r1, r2) ==
    /\ r1.route = r2.route
    /\ r1.params = r2.params
    /\ r1.nilParams = r2.nilParams

\* C3: when Compile runs again with no registration since the last Compile,
\* every method's chunk list stays what it was.
C3_CompileIdempotent ==
    [][(phase = "compiled" /\ last'.op = "compile")
          => regexesByMethod' = regexesByMethod]_vars

\* C4: once Compile has run, a registration changes the result of no
\* Dispatch(method, path), neither the route nor the parameters.
C4_CompileIsBarrier ==
    [][((\A m \in Methods : regexesByMethod[m] # <<>>) /\ last'.op = "add")
          => \A m \in {"GET", "POST"}, p \in Paths :
                SameResult(DispatchResult(RouterAfter, m, p), DispatchResult(Router, m, p))]_vars

\* C5: a registration under a name that is already registered changes
\* neither the name map nor the per-method route lists.
C5_DuplicateNameRejected ==
    [][(last'.op = "add" /\ last'.route.name \in DOMAIN routes)
          => (routes' = routes /\ routesByMethod' = routesByMethod)]_vars

\* C7: a Dispatch whose stripped path matches no registered route of the
\* method returns no route.
C7_NoMatchNoRoute ==
    (last.op = "dispatch" /\ Matching(last.method, last.path) = {})
        => last.route = NoRoute

\* C8: on a compiled router a Dispatch call changes the result of no
\* Dispatch(method, path).
C8_DispatchDeterministic ==
    [][(phase = "compiled" /\ last'.op = "dispatch")
          => \A m \in {"GET", "POST"}, p \in Paths :
                SameResult(DispatchResult(RouterAfter, m, p), DispatchResult(Router, m, p))]_vars

(***************************************************************************)
(* SpecGroup: registrations inside Group callbacks, nested up to MaxDepth. *)
(***************************************************************************)
GroupArgs == {[prefix |-> <<"/", "g">>, name |-> <<"g">>],
              [prefix |-> <<"/", "h", "/">>, name |-> <<"h", "_">>]}

GroupPaths == {<<"/", "x">>, <<"/", "g", "/", "x">>, <<"/", "h", "/", "x">>,
               <<"/", "g", "/", "h", "/", "x">>}

NextGroup ==
    \/ \E n \in Names : NumRoutes < MaxRoutes /\ Get(n, PatX)
    \/ \E a \in GroupArgs : Len(frames) < MaxDepth /\ GroupEnter(a.prefix, a.name)
    \/ GroupExit
    \/ frames = <<>> /\ CanCompile(1) /\ Compile
    \/ \E p \in GroupPaths : frames = <<>> /\ Dispatch("GET", p)

SpecGroup == Init /\ [][NextGroup]_vars

RECURSIVE ComposedName(_), ComposedPrefix(_)
\* The name prefixes of the running Group calls, outermost first, each
\* followed by "_".
ComposedName(fs) ==
    IF fs = <<>> THEN <<>>
    ELSE (IF TrimRight(fs[1].name, "_") # <<>>
          THEN TrimRight(fs[1].name, "_") \o <<"_">> ELSE <<>>)
         \o ComposedName(Tail(fs))

\* The path prefixes of the running Group calls, outermost first.
ComposedPrefix(fs) ==
    IF fs = <<>> THEN <<>>
    ELSE TrimRight(fs[1].prefix, "/") \o ComposedPrefix(Tail(fs))

\* C9: a route registered while Group calls are running is the route of the
\* name and pattern prefixed with every running call's prefix, outermost
\* first, and is what that name finds.
C9_GroupComposition ==
    (last.op = "add" /\ frames # <<>>)
        => /\ last.route = newRoute(last.route.id, last.method,
                                    ComposedName(frames) \o last.name,
                                    Lits(ComposedPrefix(frames)) \o last.toks)
           /\ FindRoute(Router, ComposedName(frames) \o last.name) = last.route

\* C10: when a Group call ends the group context is the one that call found.
C10_GroupRestores ==
    last.op = "groupExit" => group = last.saved

(***************************************************************************)
(* SpecChunk: up to MaxChunkRoutes GET routes, more than one chunk holds.  *)
(* The k-th route is named "r" + the k-th letter and matches "/" + that    *)
(* letter alone; at the positions WildAt it may instead be "/:w", which    *)
(* matches every one-segment path.                                         *)
(***************************************************************************)
Letters == <<"a", "b", "c", "d", "e", "f", "g", "h", "i", "j", "k", "l", "m",
             "n", "o", "p", "q", "r", "s", "t", "u", "v", "w", "x", "y", "z">>

ChunkName(k) == <<"r", Letters[k]>>

ChunkPath(k) == <<"/", Letters[k]>>

WildPat == <<Lit("/"), Ph(<<"w">>, "")>>

WildAt == {15, 17}

ChunkPatterns(k) == {Lits(ChunkPath(k))} \cup (IF k \in WildAt THEN {WildPat} ELSE {})

Probes == {1, 15, 16, 17, 18}

NextChunk ==
    \/ \E p \in ChunkPatterns(Len(routesByMethod["GET"]) + 1) :
          /\ Len(routesByMethod["GET"]) < MaxChunkRoutes
          /\ Get(ChunkName(Len(routesByMethod["GET"]) + 1), p)
    \/ CanCompile(MaxChunkCompiles) /\ Compile
    \/ \E k \in Probes : Dispatch("GET", ChunkPath(k))

SpecChunk == Init /\ [][NextChunk]_vars

\* The first registered route of the method that matches the path.
FirstMatching(method, path) ==
    routesByMethod[method][CHOOSE i \in Matching(method, path) :
                              \A j \in Matching(method, path) : i <= j]

\* C2: on a router compiled after its latest registration, a path that
\* matches only the k-th route of the method dispatches to that route.
C2_EveryRouteReachable ==
    (last.op = "dispatch" /\ phase = "compiled")
        => \A k \in 1..Len(routesByMethod[last.method]) :
              Matching(last.method, last.path) = {k}
                  => last.route = routesByMethod[last.method][k]

\* C6: on a router compiled after its latest registration, a path that two
\* or more routes of the method match dispatches to the one registered first.
C6_FirstRegisteredWins ==
    (last.op = "dispatch" /\ phase = "compiled"
        /\ Cardinality(Matching(last.method, last.path)) >= 2)
        => last.route = FirstMatching(last.method, last.path)

(***************************************************************************)
(* SpecConc: registration and Compile on one goroutine at startup, then    *)
(* Dispatch calls of the goroutines in Callers, interleaved between the    *)
(* assignment of r.matched and the return that reads it.                   *)
(***************************************************************************)
Serving == \E c \in Callers : calls[c].pc # "idle"

NextConc ==
    \/ \E n \in Names, p \in Patterns :
          ~Serving /\ NumRoutes < MaxRoutes /\ Get(n, p)
    \/ ~Serving /\ CanCompile(1) /\ Compile
    \/ \E c \in Callers, p \in {<<"/", "x">>, <<"/", "5">>} :
          phase = "compiled" /\ DispatchScan(c, "GET", p)
    \/ \E c \in Callers : DispatchReturn(c)

SpecConc == Init /\ [][NextConc]_vars

\* C1: every Dispatch call that has returned returned the route its own
\* scan of the chunks found, whatever the other calls in flight did.
C1_ConcurrentDispatchOwnRoute ==
    \A c \in Callers : calls[c].pc = "done" => calls[c].route = calls[c].own

(***************************************************************************)
(* SpecExt: routes with constrained, unconstrained and mixed placeholders, *)
(* several lists of valid extensions, and paths with and without a dot.    *)
(***************************************************************************)
PatInt == <<Lit("/"), Ph(<<"i", "d">>, "int")>>

PatSeg == <<Lit("/"), Ph(<<"v">>, ""), Lit("/"), Lit("a")>>

PatMixed == <<Lit("/"), Ph(<<"i", "d">>, ""), Lit("/"), Ph(<<"s">>, "slug")>>

ExtPatterns == {PatInt, PatSeg, PatMixed}

ExtChoices == {<< <<>>, <<"j">> >>, << <<"j">> >>}

ExtPaths == {<<>>, <<"/", "1", "0">>, <<"/", "1", "0", ".", "j">>,
             <<"/", "1", "0", ".", "x">>, <<"/", "1", ".", "0", "/", "a">>,
             <<"/", "x", "/", "a">>, <<"/", "5", "/", "x">>}

NextExt ==
    \/ \E n \in Names, p \in ExtPatterns : NumRoutes < MaxRoutes /\ Get(n, p)
    \/ \E e \in ExtChoices : ValidExtensions(e)
    \/ CanCompile(1) /\ Compile
    \/ \E m \in {"GET", "POST"}, p \in ExtPaths : Dispatch(m, p)

SpecExt == Init /\ [][NextExt]_vars

\* C11: a Dispatch that returns a route cut from its path an extension that
\* is in the list of valid extensions; with an extension that is not listed
\* (the empty one included) no route is returned.
C11_ExtensionGating ==
    (last.op = "dispatch" /\ last.route # NoRoute)
        => \E i \in 1..Len(validExtensions) :
              validExtensions[i] = SplitExt(last.path).ext

\* C11, its case: a Dispatch of a path with an extension returned a route.
C11_Witness ==
    /\ last.op = "dispatch"
    /\ last.route # NoRoute
    /\ SplitExt(last.path).ext = <<"j">>

\* C12: a Dispatch that returns a route returns parameters that hold the key
\* ext, with the extension cut from the path (the empty string when the path
\* had none) as its value.
C12_ExtAlwaysPresent ==
    (last.op = "dispatch" /\ last.route # NoRoute)
        => /\ ExtKey \in DOMAIN last.params
           /\ last.params[ExtKey] = StrVal(SplitExt(last.path).ext)

RECURSIVE GroupPerPlaceholder(_)
\* One named group for every placeholder of the pattern: the constraint's
\* class for a constrained one, [^/]+ for an unconstrained one.
GroupPerPlaceholder(toks) ==
    IF toks = <<>> THEN <<>>
    ELSE (IF toks[1].k = "ph"
          THEN <<Grp(toks[1].name,
                     IF toks[1].cls = "" THEN "[^/]+" ELSE ExpandAlias(toks[1].cls))>>
          ELSE <<toks[1]>>)
         \o GroupPerPlaceholder(Tail(toks))

Mixed(toks) ==
    /\ \E i \in 1..Len(toks) : toks[i].k = "ph" /\ toks[i].cls # ""
    /\ \E i \in 1..Len(toks) : toks[i].k = "ph" /\ toks[i].cls = ""

PlaceholderNames(toks) == {toks[i].name : i \in {j \in 1..Len(toks) : toks[j].k = "ph"}}

\* C13: when the only route of a method has a pattern that mixes constrained
\* and unconstrained placeholders, a path with a valid extension that fills
\* every placeholder (the constrained ones within their constraint, the
\* others with one or more non-slash characters) dispatches to that route
\* and every placeholder is a key of the parameters.
C13_MixedPlaceholders ==
    (last.op = "dispatch" /\ phase = "compiled"
        /\ extensionIsValid(Router, SplitExt(last.path).ext))
        => \A n \in Names, toks \in ExtPatterns, id \in 1..MaxRoutes :
              (/\ Mixed(toks)
               /\ routesByMethod[last.method] = <<newRoute(id, last.method, n, toks)>>
               /\ MatchesAlts(<<GroupPerPlaceholder(toks)>>, 1, SplitExt(last.path).path))
              => /\ last.route = routesByMethod[last.method][1]
                 /\ PlaceholderNames(toks) \subseteq DOMAIN last.params

(***************************************************************************)
(* SpecURL: URL generation for routes whose placeholder names overlap or   *)
(* repeat, and dispatch of the generated paths.                            *)
(***************************************************************************)
PatPrefix == <<Lit("/"), Ph(<<"a">>, ""), Lit("/"), Ph(<<"a", "b">>, "")>>

PatDup == <<Lit("/"), Ph(<<"a">>, ""), Lit("/"), Ph(<<"a">>, "")>>

URLPatterns == {PatX, PatPrefix, PatDup}

URLNames == Names \cup {<<"c">>}

Pair(nm, v) == [name |-> nm, value |-> v]

PairLists == {<<>>,
              <<Pair(<<"a">>, IntVal(1))>>,
              <<Pair(<<"a", "b">>, StrVal(<<"x">>))>>,
              <<Pair(<<"a">>, IntVal(1)), Pair(<<"a", "b">>, IntVal(2))>>,
              <<Pair(<<"a", "b">>, IntVal(2)), Pair(<<"a">>, IntVal(1))>>,
              <<Pair(<<"a">>, StrVal(<<"x">>)), Pair(<<"a", "b">>, IntVal(12))>>}

URLPaths == {<<>>, <<"/", "x">>, <<"/", "1", "/", "x">>}

NextURL ==
    \/ \E n \in Names, p \in URLPatterns : NumRoutes < MaxRoutes /\ Get(n, p)
    \/ CanCompile(1) /\ Compile
    \/ \E n \in URLNames, ps \in PairLists : URL(n, ps)
    \/ \E m \in {"GET", "POST"}, p \in URLPaths : Dispatch(m, p)

SpecURL == Init /\ [][NextURL]_vars

NameChars == Lower \cup Digits \cup {"_"}

RECURSIVE NameRun(_, _)
\* How many characters of s from pos on can stand in a placeholder's name.
NameRun(s, pos) ==
    IF pos <= Len(s) /\ s[pos] \in NameChars THEN 1 + NameRun(s, pos + 1) ELSE 0

RECURSIVE PlaceholdersIn(_, _)
\* The names of the placeholders :name of a template, from pos on.
PlaceholdersIn(s, pos) ==
    IF pos > Len(s) THEN {}
    ELSE IF s[pos] = ":" /\ NameRun(s, pos + 1) > 0
         THEN {SubSeq(s, pos + 1, pos + NameRun(s, pos + 1))}
              \cup PlaceholdersIn(s, pos + 1 + NameRun(s, pos + 1))
         ELSE PlaceholdersIn(s, pos + 1)

Supplied(pairs) == {pairs[i].name : i \in 1..Len(pairs)}

ValueText(v) == IF v.t = "int" THEN Itoa(v.i) ELSE v.s

SuppliedText(pairs, nm) ==
    ValueText(pairs[CHOOSE i \in 1..Len(pairs) : pairs[i].name = nm].value)

RECURSIVE Substituted(_, _, _)
\* The template from pos on with every placeholder whose name is supplied
\* replaced by its value's text and every other placeholder left as it is.
Substituted(s, pos, pairs) ==
    IF pos > Len(s) THEN <<>>
    ELSE IF s[pos] = ":" /\ NameRun(s, pos + 1) > 0
         THEN (IF SubSeq(s, pos + 1, pos + NameRun(s, pos + 1)) \in Supplied(pairs)
               THEN SuppliedText(pairs, SubSeq(s, pos + 1, pos + NameRun(s, pos + 1)))
               ELSE SubSeq(s, pos, pos + NameRun(s, pos + 1)))
              \o Substituted(s, pos + 1 + NameRun(s, pos + 1), pairs)
         ELSE <<s[pos]>> \o Substituted(s, pos + 1, pairs)

Unconstrained(route) ==
    \A i \in 1..Len(route.pattern) :
        route.pattern[i].k = "grp" => route.pattern[i].cls = "[^/]+"

\* C14: on a router compiled after its latest registration, with every name
\* registered once: when URL is given one value for every placeholder of a
\* route with unconstrained placeholders, and no other route of the method
\* matches the generated path, Dispatch of that path with the route's method
\* returns the route and, for every placeholder, the value supplied.
C14_RoundTrip ==
    (/\ last.op = "url"
     /\ phase = "compiled"
     /\ last.name \in DOMAIN routes
     /\ Cardinality(DOMAIN routes) = NumRoutes
     /\ Cardinality(Supplied(last.pairs)) = Len(last.pairs)
     /\ Unconstrained(routes[last.name])
     /\ PlaceholdersIn(routes[last.name].basePattern, 1) = Supplied(last.pairs)
     /\ \A i \in Matching(routes[last.name].method, last.url) :
           routesByMethod[routes[last.name].method][i] = routes[last.name])
        => \A res \in {DispatchResult(Router, routes[last.name].method, last.url)} :
              /\ res.route = routes[last.name]
              /\ \A i \in 1..Len(last.pairs) :
                    /\ last.pairs[i].name \in DOMAIN res.params
                    /\ res.params[last.pairs[i].name] = last.pairs[i].value

DuplicatePlaceholder(toks) ==
    \E i, j \in 1..Len(toks) :
        i < j /\ toks[i].k = "ph" /\ toks[j].k = "ph" /\ toks[i].name = toks[j].name

\* C15: a registration whose pattern holds two placeholders of one name
\* changes neither the name map nor the per-method route lists.
C15_DuplicatePlaceholderRejected ==
    [][(last'.op = "add" /\ DuplicatePlaceholder(last'.toks))
          => (routes' = routes /\ routesByMethod' = routesByMethod)]_vars

\* C17: URL with a name that is not registered returns the empty string;
\* with a registered name it returns the route's template with every
\* supplied placeholder replaced by its value's text and every placeholder
\* that is not supplied left as :name.
C17_URLNeverFails ==
    last.op = "url"
        => last.url = IF last.name \in DOMAIN routes
                      THEN Substituted(routes[last.name].basePattern, 1, last.pairs)
                      ELSE <<>>

\* C16: every parameter a Dispatch returns with a route is the integer its
\* captured text stands for when the whole text is a base-10 integer, and
\* the captured text itself otherwise.
C16_TypeCoercion ==
    (last.op = "dispatch" /\ last.route # NoRoute)
        => \A n \in DOMAIN last.raw :
              /\ n \in DOMAIN last.params
              /\ last.params[n] = IF IsInt(last.raw[n]) THEN IntVal(Atoi(last.raw[n]))
                                  ELSE StrVal(last.raw[n])

\* C16, its case: a Dispatch captured the text "10" for a parameter.
C16_Witness ==
    /\ last.op = "dispatch"
    /\ last.route # NoRoute
    /\ \E n \in DOMAIN last.raw : last.raw[n] = <<"1", "0">>

\* The routes rs cut into consecutive runs of chunkSize (the last run may be
\* shorter), each run compiled to one chunk of its routes' alternatives.
ExpectedChunks(rs) ==
    [j \in 1..((Len(rs) + chunkSize - 1) \div chunkSize) |->
        << <<Anch([i \in 1..(IF j * chunkSize <= Len(rs) THEN chunkSize
                             ELSE Len(rs) - (j - 1) * chunkSize) |->
                     Alternative(rs[(j - 1) * chunkSize + i])])>> >>]

\* C18: a Compile on a router that holds no chunks yet leaves, for every
\* method with at least one route, ceil(n / chunkSize) chunks that hold the
\* method's routes in registration order, chunkSize in each but the last,
\* every route in exactly one chunk.
C18_ChunksPartition ==
    [][(last'.op = "compile" /\ \A m \in Methods : regexesByMethod[m] = <<>>)
          => \A m \in Methods :
                Len(routesByMethod[m]) >= 1
                    => regexesByMethod'[m] = ExpectedChunks(routesByMethod[m])]_vars

\* Whether the path's final segment (what follows its last "/") holds a dot.
FinalSegmentHasDot(path) ==
    \E i \in 1..Len(path) :
        path[i] = "." /\ \A j \in i..Len(path) : path[j] # "/"

\* The registered routes of the method that match the path as it is given.
MatchingFull(method, path) ==
    {i \in 1..Len(routesByMethod[method]) :
        RouteMatches(routesByMethod[method][i], path)}

\* C19: on a router compiled after its latest registration, with every name
\* registered once and the empty extension valid, a path with no dot in its
\* final segment that matches, whole, only the k-th route of the method
\* dispatches to that route with the empty extension.
C19_ExtFromFinalSegment ==
    (/\ last.op = "dispatch"
     /\ phase = "compiled"
     /\ Cardinality(DOMAIN routes) = NumRoutes
     /\ \E i \in 1..Len(validExtensions) : validExtensions[i] = <<>>
     /\ ~FinalSegmentHasDot(last.path))
        => \A k \in 1..Len(routesByMethod[last.method]) :
              MatchingFull(last.method, last.path) = {k}
                  => /\ last.route = routesByMethod[last.method][k]
                     /\ ExtKey \in DOMAIN last.params
                     /\ last.params[ExtKey] = StrVal(<<>>)

\* C20: a route that Dispatch(method, path) returns is a route of that
\* method: its method is the one dispatched and it stands in the method's
\* route list.
C20_MethodIsolation ==
    (last.op = "dispatch" /\ last.route # NoRoute)
        => /\ last.route.method = last.method
           /\ \E i \in 1..Len(routesByMethod[last.method]) :
                 routesByMethod[last.method][i] = last.route

=============================================================================
